---- MODULE Spec2Model ----
(***************************************************************************)
(* A model of the highlights bot's notification core:                      *)
(*   - notify_keyword, the per-candidate watch (src/src/util.rs),          *)
(*   - the sent_notifications table (src/src/db/notification.rs),          *)
(*   - the user_states table (src/src/db/user_state.rs),                   *)
(*   - channel resolution of command arguments (src/src/commands/util.rs). *)
(* Strings that the code inspects character by character are sequences of  *)
(* one-character strings.                                                  *)
(***************************************************************************)
EXTENDS Integers, Sequences, FiniteSets, TLC

VARIABLES
    watches,             \* notify_keyword tasks, by candidate
    dms,                 \* direct messages sent, in order
    reports,             \* calls of report_error, per calling watch, in order
    next_id,             \* next message id the transport hands out
    deleted_channels,    \* channels that were deleted (gone from ctx.cache)
    sent_notifications,  \* the notification table, in rowid order
    user_states,         \* the user_states table, its rows in order
    flags,               \* the partial map the user_states table stands for
    last,                \* the last store operation: its call and its result
    args,                \* a command's argument string
    channels,            \* the channel directory of a command
    can_read,            \* outcome of user_can_read_channel per (user, channel)
    known_users,         \* the ids ctx.http.get_user answers with a user
    resolved             \* the result of the last resolution

vars == <<watches, dms, reports, next_id, deleted_channels, sent_notifications,
          user_states, flags, last, args, channels, can_read, known_users,
          resolved>>

pipelineVars == <<watches, dms, reports, next_id, deleted_channels>>
resolveVars == <<args, channels, can_read, known_users, resolved>>

----------------------------------------------------------------------------
(* Bounds of the model *)

NumUsers == 2
NumStoreUsers == 3
NumChannels == 2
MaxMessages == 2
MaxWatches == 2
MaxRows == 3
MaxTokens == 3

Users == 1..NumUsers
(* The users the recipient-state store is exercised with on its own *)
StoreUsers == 1..NumStoreUsers
ChannelIds == 1..NumChannels

(* The keyword store (crate::db::Keyword): who subscribes to what. *)
Subscriptions ==
    { [user_id |-> 1, keyword |-> "foo"],
      [user_id |-> 1, keyword |-> "bar"],
      [user_id |-> 2, keyword |-> "foo"] }

KeywordTexts == { k.keyword : k \in Subscriptions }

NoOp == [op |-> "none"]

----------------------------------------------------------------------------
(* user_states: src/src/db/user_state.rs *)

CANNOT_DM_STATE == 0

(* A from_row that takes every code for the one flag there is *)
from_row_defaulting(row) == [ok |-> TRUE, value |-> "CannotDm"]

(* UserState::from_row on one row: the flag, or the error of an unknown code *)
from_row(row) ==
    IF row.state = CANNOT_DM_STATE
    THEN [ok |-> TRUE, value |-> "CannotDm"]
    ELSE [ok |-> FALSE, value |-> "IntegralValueOutOfRange"]

(* UserState::user_state: Ok(None), Ok(Some(flag)) or Err. query_row reads  *)
(* the first row of the result, and optional() turns "no rows" into None.  *)
user_state(user_id) ==
    LET IsUser(r) == r.user_id = user_id
        rows == SelectSeq(user_states, IsUser)
    IN  IF rows = <<>>
        THEN [ok |-> TRUE, value |-> "None"]
        ELSE from_row(Head(rows))

(* A plain INSERT, on a table without the key *)
InsertOnly(table, row) == Append(table, row)

(* INSERT INTO user_states .. ON CONFLICT (user_id) DO UPDATE SET state =   *)
(* excluded.state                                                          *)
Upsert(table, row) ==
    IF \E i \in DOMAIN table : table[i].user_id = row.user_id
    THEN [i \in DOMAIN table |->
            IF table[i].user_id = row.user_id
            THEN [table[i] EXCEPT !.state = row.state]
            ELSE table[i]]
    ELSE Append(table, row)

(* DELETE FROM user_states WHERE user_id = ? *)
DeleteUser(table, user_id) ==
    LET Keep(r) == r.user_id # user_id
    IN  SelectSeq(table, Keep)

(* UserState::set: the only flag a UserState can carry is CannotDm *)
UserStateSet(user_id) ==
    /\ user_states' = Upsert(user_states,
                             [user_id |-> user_id, state |-> CANNOT_DM_STATE])
    /\ flags' = [flags EXCEPT ![user_id] = "CannotDm"]
    /\ last' = [op |-> "set", user_id |-> user_id, before |-> user_states,
                result |-> "Ok"]
    /\ UNCHANGED <<pipelineVars, sent_notifications, resolveVars>>

(* UserState::delete *)
UserStateDelete(user_id) ==
    /\ user_states' = DeleteUser(user_states, user_id)
    /\ flags' = [flags EXCEPT ![user_id] = "None"]
    /\ last' = [op |-> "delete", user_id |-> user_id, before |-> user_states,
                result |-> "Ok"]
    /\ UNCHANGED <<pipelineVars, sent_notifications, resolveVars>>

(* UserState::clear *)
UserStateClear(user_id) ==
    /\ user_states' = DeleteUser(user_states, user_id)
    /\ flags' = [flags EXCEPT ![user_id] = "None"]
    /\ last' = [op |-> "clear", user_id |-> user_id, before |-> user_states,
                result |-> "Ok"]
    /\ UNCHANGED <<pipelineVars, sent_notifications, resolveVars>>

(* A caller reads UserState::user_state(user_id) *)
UserStateRead(user_id) ==
    /\ last' = [op |-> "user_state", user_id |-> user_id, before |-> user_states,
                result |-> user_state(user_id)]
    /\ UNCHANGED <<pipelineVars, sent_notifications, user_states, flags,
                   resolveVars>>

----------------------------------------------------------------------------
(* sent_notifications: src/src/db/notification.rs *)

(* The Notification values callers pass to insert and delete *)
Notifications ==
    [ original_message     : 1..2,
      notification_message : 3..4,
      keyword              : {"foo", "bar"},
      user_id              : {1} ]

(* A delete by notification that selects on original_message of the row   *)
(* with that notification_message, taking its siblings with it             *)
DeleteSiblingsToo(table, notification_message) ==
    LET Hit(r) == r.notification_message = notification_message
        hits == SelectSeq(table, Hit)
        Keep(r) == \A i \in DOMAIN hits : r.original_message # hits[i].original_message
    IN  SelectSeq(table, Keep)

(* A bulk delete that stops after the first matching row *)
DeleteFirstOfOriginal(table, message_id) ==
    LET hits == { i \in DOMAIN table : table[i].original_message = message_id }
    IN  IF hits = {} THEN table
        ELSE LET first == CHOOSE i \in hits : \A j \in hits : i <= j
             IN  SubSeq(table, 1, first - 1) \o SubSeq(table, first + 1, Len(table))

(* DELETE FROM sent_notifications WHERE notification_message = ? *)
DeleteWhereNotification(table, notification_message) ==
    LET Keep(r) == r.notification_message # notification_message
    IN  SelectSeq(table, Keep)

(* DELETE FROM sent_notifications WHERE original_message = ? *)
DeleteWhereOriginal(table, message_id) ==
    LET Keep(r) == r.original_message # message_id
    IN  SelectSeq(table, Keep)

(* A select that walks the table from its last row to its first *)
SelectWhereOriginalReversed(table, message_id) ==
    LET IsOf(r) == r.original_message = message_id
        hits == SelectSeq(table, IsOf)
    IN  [k \in DOMAIN hits |-> hits[Len(hits) + 1 - k]]

(* The columns the SELECT of notifications_of_message lists, in its order *)
SelectedColumns(r) ==
    <<r.original_message, r.notification_message, r.keyword, r.user_id>>

(* Notification::from_row: columns 0 to 3 of the row, in this order *)
notification_from_row(row) ==
    [ original_message     |-> row[1],
      notification_message |-> row[2],
      keyword              |-> row[3],
      user_id              |-> row[4] ]

(* SELECT .. FROM sent_notifications WHERE original_message = ?, without   *)
(* ORDER BY: the table has no index, and the rows are met in rowid order.  *)
(* Each is mapped by from_row.                                             *)
SelectWhereOriginal(table, message_id) ==
    LET IsOf(r) == r.original_message = message_id
        hits == SelectSeq(table, IsOf)
    IN  [k \in DOMAIN hits |-> notification_from_row(SelectedColumns(hits[k]))]

(* Notification::insert: the table has no key and no UNIQUE constraint *)
Insert(n) ==
    /\ Len(sent_notifications) < MaxRows
    /\ sent_notifications' = Append(sent_notifications, n)
    /\ last' = [op |-> "insert", arg |-> n, before |-> sent_notifications,
                result |-> "Ok"]
    /\ UNCHANGED <<pipelineVars, user_states, flags, resolveVars>>

(* Notification::delete *)
Delete(n) ==
    /\ sent_notifications' =
          DeleteWhereNotification(sent_notifications, n.notification_message)
    /\ last' = [op |-> "delete", arg |-> n, before |-> sent_notifications,
                result |-> "Ok"]
    /\ UNCHANGED <<pipelineVars, user_states, flags, resolveVars>>

(* Notification::delete_notifications_of_message *)
DeleteNotificationsOfMessage(message_id) ==
    /\ sent_notifications' = DeleteWhereOriginal(sent_notifications, message_id)
    /\ last' = [op |-> "delete_notifications_of_message", arg |-> message_id,
                before |-> sent_notifications, result |-> "Ok"]
    /\ UNCHANGED <<pipelineVars, user_states, flags, resolveVars>>

(* Notification::notifications_of_message *)
NotificationsOfMessage(message_id) ==
    /\ last' = [op |-> "notifications_of_message", arg |-> message_id,
                before |-> sent_notifications,
                result |-> SelectWhereOriginal(sent_notifications, message_id)]
    /\ UNCHANGED <<pipelineVars, sent_notifications, user_states, flags,
                   resolveVars>>

----------------------------------------------------------------------------
(* The watch: src/src/util.rs, notify_keyword *)

Started == DOMAIN watches

(* A filter on the author of the source message instead of the keyword's  *)
(* user                                                                    *)
ReplyFilterOnAuthor(w, author, channel_id) ==
    /\ channel_id = watches[w].channel_id
    /\ author = watches[w].author

(* A filter on the author alone, for a collector that is not tied to the   *)
(* channel of the source message                                           *)
ReplyFilterAnyChannel(w, author, channel_id) ==
    author = watches[w].user_id

(* The filter of the reply collector the watch awaits: channel_id of the   *)
(* source message, author_id(user_id) with user_id the keyword's user.     *)
ReplyFilter(w, author, channel_id) ==
    /\ channel_id = watches[w].channel_id
    /\ author = watches[w].user_id

(* A Matcher that matches the author of a message against their own       *)
(* keywords                                                                *)
CandidatesWithAuthor(author, text) ==
    { k \in Subscriptions :
        /\ k.keyword \in text
        /\ user_state(k.user_id).value # "CannotDm" }

(* The Matcher (the caller of notify_keyword, not in src/): the candidates *)
(* of a message, without its author and without users marked CannotDm.     *)
Candidates(author, text) ==
    { k \in Subscriptions :
        /\ k.keyword \in text
        /\ k.user_id # author
        /\ user_state(k.user_id).value # "CannotDm" }

NewWatch(id, author, channel_id, k) ==
    [ user_id    |-> k.user_id,
      keyword    |-> k.keyword,
      message_id |-> id,
      channel_id |-> channel_id,
      author     |-> author,
      pc         |-> "Watching",
      heard      |-> {},
      sends      |-> 0 ]

(* A gateway whose collectors outlive the timeout: a message that passes   *)
(* the filter of a watch also ends one that is already delivering          *)
MessageCreateCancelsLate(author, channel_id, text) ==
    /\ channel_id \notin deleted_channels
    /\ next_id - Len(dms) <= MaxMessages
    /\ LET id == next_id
           hear(w) ==
               IF watches[w].pc \notin {"Watching", "CreateDm", "SendMessage"}
               THEN watches[w]
               ELSE [watches[w] EXCEPT
                       !.heard = IF watches[w].channel_id = channel_id
                                 THEN @ \cup {author} ELSE @,
                       !.pc = IF ReplyFilter(w, author, channel_id)
                              THEN "Suppressed" ELSE @]
           spawned == { <<id, k>> : k \in Candidates(author, text) }
       IN  /\ Cardinality(Started \cup spawned) <= MaxWatches
           /\ watches' = [w \in Started \cup spawned |->
                            IF w \in Started THEN hear(w)
                            ELSE NewWatch(id, author, channel_id, w[2])]
           /\ reports' = [w \in Started \cup spawned |->
                            IF w \in Started THEN reports[w] ELSE <<>>]
           /\ next_id' = next_id + 1
    /\ UNCHANGED <<dms, sent_notifications, user_states, flags, last,
                   resolveVars, deleted_channels>>

(* A message arrives: collectors whose filter it passes resolve with it,   *)
(* and one watch is spawned per candidate.                                 *)
MessageCreate(author, channel_id, text) ==
    /\ channel_id \notin deleted_channels
    /\ next_id - Len(dms) <= MaxMessages
    /\ LET id == next_id
           hear(w) ==
               IF watches[w].pc # "Watching"
               THEN watches[w]
               ELSE [watches[w] EXCEPT
                       !.heard = IF watches[w].channel_id = channel_id
                                 THEN @ \cup {author} ELSE @,
                       !.pc = IF ReplyFilter(w, author, channel_id)
                              THEN "Suppressed" ELSE @]
           spawned == { <<id, k>> : k \in Candidates(author, text) }
       IN  /\ Cardinality(Started \cup spawned) <= MaxWatches
           /\ watches' = [w \in Started \cup spawned |->
                            IF w \in Started THEN hear(w)
                            ELSE NewWatch(id, author, channel_id, w[2])]
           /\ reports' = [w \in Started \cup spawned |->
                            IF w \in Started THEN reports[w] ELSE <<>>]
           /\ next_id' = next_id + 1
    /\ UNCHANGED <<dms, sent_notifications, user_states, flags, last,
                   resolveVars, deleted_channels>>

(* A report that names the author of the source message instead of the    *)
(* keyword's user                                                          *)
report_error_of_author(w, error) ==
    [reports EXCEPT ![w] = Append(@, [ channel_id |-> watches[w].channel_id,
                                       user_id    |-> watches[w].author,
                                       error      |-> error ])]

(* report_error(&ctx, channel_id, user_id, error): one message to the log  *)
(* channel and one log::error! line                                        *)
report_error(w, error) ==
    [reports EXCEPT ![w] = Append(@, [ channel_id |-> watches[w].channel_id,
                                       user_id    |-> watches[w].user_id,
                                       error      |-> error ])]

(* A step of the async block ends in Err(error): `?` leaves the block, and *)
(* `if let Err(error) = result` reports it; nothing else follows.          *)
Fail(w, error) ==
    /\ reports' = report_error(w, error)
    /\ watches' = [watches EXCEPT ![w].pc = "Failed"]

(* new_message.await is None: the patience window ended without a reply.   *)
(* The watch builds the link and reads the names of the channel and of the *)
(* guild from the cache: ctx.cache.guild_channel_field(channel_id, ..) and *)
(* ctx.cache.guild_field(guild_id, ..), each with .ok_or(..)?. The reads   *)
(* touch nothing but the cache, so they are one step with the timeout; the *)
(* cache belongs to the gateway, and what it holds is an input of the      *)
(* step, but for a deleted channel, which it does not hold.                *)
Timeout(w, channel_cached, guild_cached) ==
    /\ w \in Started
    /\ watches[w].pc = "Watching"
    /\ watches[w].channel_id \in deleted_channels => ~channel_cached
    /\ IF ~channel_cached
       THEN Fail(w, "Couldn't get channel for keyword")
       ELSE IF ~guild_cached
       THEN Fail(w, "Couldn't get guild for keyword")
       ELSE /\ watches' = [watches EXCEPT ![w].pc = "CreateDm"]
            /\ UNCHANGED reports
    /\ UNCHANGED <<dms, next_id, sent_notifications, user_states, flags,
                   last, resolveVars, deleted_channels>>

(* user_id.create_dm_channel(&ctx).await? *)
CreateDmChannel(w, ok) ==
    /\ w \in Started
    /\ watches[w].pc = "CreateDm"
    /\ IF ok
       THEN /\ watches' = [watches EXCEPT ![w].pc = "SendMessage"]
            /\ UNCHANGED reports
       ELSE Fail(w, "create_dm_channel")
    /\ UNCHANGED <<dms, next_id, sent_notifications, user_states, flags,
                   last, resolveVars, deleted_channels>>

(* The embed the watch sends to the subscriber's DM channel *)
Embed(w, id) ==
    [ id      |-> id,
      to      |-> watches[w].user_id,
      link    |-> watches[w].message_id,
      keyword |-> watches[w].keyword,
      watch   |-> w ]

(* A send that is followed by the insert of the ledger row of the sent     *)
(* message                                                                 *)
SendMessageThenInsert(w, ok) ==
    /\ w \in Started
    /\ watches[w].pc = "SendMessage"
    /\ IF ok
       THEN /\ dms' = Append(dms, Embed(w, next_id))
            /\ next_id' = next_id + 1
            /\ watches' = [watches EXCEPT ![w].pc = "Delivered", ![w].sends = @ + 1]
            /\ sent_notifications' =
                  Append(sent_notifications,
                         [ original_message     |-> watches[w].message_id,
                           notification_message |-> next_id,
                           keyword              |-> watches[w].keyword,
                           user_id              |-> watches[w].user_id ])
            /\ UNCHANGED reports
       ELSE /\ reports' = report_error(w, "send_message")
            /\ watches' = [watches EXCEPT ![w].pc = "Failed", ![w].sends = @ + 1]
            /\ UNCHANGED <<dms, next_id, sent_notifications>>
    /\ UNCHANGED <<user_states, flags, last, resolveVars, deleted_channels>>

(* A send that, when it fails, marks the subscriber as one who cannot be   *)
(* sent direct messages                                                    *)
SendMessageMarksCannotDm(w, ok) ==
    /\ w \in Started
    /\ watches[w].pc = "SendMessage"
    /\ IF ok
       THEN /\ dms' = Append(dms, Embed(w, next_id))
            /\ next_id' = next_id + 1
            /\ watches' = [watches EXCEPT ![w].pc = "Delivered", ![w].sends = @ + 1]
            /\ UNCHANGED <<reports, user_states, flags>>
       ELSE /\ reports' = report_error(w, "send_message")
            /\ watches' = [watches EXCEPT ![w].pc = "Failed", ![w].sends = @ + 1]
            /\ user_states' = Upsert(user_states,
                                     [user_id |-> watches[w].user_id,
                                      state |-> CANNOT_DM_STATE])
            /\ flags' = [flags EXCEPT ![watches[w].user_id] = "CannotDm"]
            /\ UNCHANGED <<dms, next_id>>
    /\ UNCHANGED <<sent_notifications, last, resolveVars, deleted_channels>>

(* A send that waits for every other watch's send to end: deliveries run   *)
(* one at a time                                                           *)
SendMessageOneAtATime(w, ok) ==
    /\ w \in Started
    /\ watches[w].pc = "SendMessage"
    /\ \A v \in Started \ {w} : watches[v].pc # "SendMessage"
    /\ IF ok
       THEN /\ dms' = Append(dms, Embed(w, next_id))
            /\ next_id' = next_id + 1
            /\ watches' = [watches EXCEPT ![w].pc = "Delivered", ![w].sends = @ + 1]
            /\ UNCHANGED reports
       ELSE /\ reports' = report_error(w, "send_message")
            /\ watches' = [watches EXCEPT ![w].pc = "Failed", ![w].sends = @ + 1]
            /\ UNCHANGED <<dms, next_id>>
    /\ UNCHANGED <<sent_notifications, user_states, flags, last,
                   resolveVars, deleted_channels>>

(* dm_channel.send_message(..).await?; Ok(()): the sent message is dropped *)
SendMessage(w, ok) ==
    /\ w \in Started
    /\ watches[w].pc = "SendMessage"
    /\ IF ok
       THEN /\ dms' = Append(dms, Embed(w, next_id))
            /\ next_id' = next_id + 1
            /\ watches' = [watches EXCEPT ![w].pc = "Delivered", ![w].sends = @ + 1]
            /\ UNCHANGED reports
       ELSE /\ reports' = report_error(w, "send_message")
            /\ watches' = [watches EXCEPT ![w].pc = "Failed", ![w].sends = @ + 1]
            /\ UNCHANGED <<dms, next_id>>
    /\ UNCHANGED <<sent_notifications, user_states, flags, last,
                   resolveVars, deleted_channels>>

(* The channel is deleted: the gateway takes it out of the cache, and no   *)
(* message arrives in it any more.                                         *)
ChannelDelete(channel_id) ==
    /\ channel_id \notin deleted_channels
    /\ deleted_channels' = deleted_channels \cup {channel_id}
    /\ UNCHANGED <<watches, dms, reports, next_id, sent_notifications,
                   user_states, flags, last, resolveVars>>

----------------------------------------------------------------------------
(* Specifications *)

(* The keywords a message holds: none, one, or every one *)
Texts == { {}, {"foo"}, KeywordTexts }

NoResolution == [kind |-> "none"]

StoresInit ==
    /\ sent_notifications = <<>>
    /\ user_states = <<>>
    /\ flags = [u \in Users \cup StoreUsers |-> "None"]
    /\ last = NoOp

PipelineInit ==
    /\ watches = <<>>
    /\ dms = <<>>
    /\ reports = <<>>
    /\ next_id = 1
    /\ deleted_channels = {}

ResolveIdle ==
    /\ args = <<>>
    /\ channels = <<>>
    /\ can_read = <<>>
    /\ known_users = {}
    /\ resolved = NoResolution

Init == PipelineInit /\ StoresInit /\ ResolveIdle

(* The watches, the messages that start and resolve them, and the events   *)
(* around them                                                             *)
WatchNext ==
    \/ \E a \in Users, c \in ChannelIds, t \in Texts : MessageCreate(a, c, t)
    \/ \E w \in Started, chan \in BOOLEAN, guild \in BOOLEAN :
           Timeout(w, chan, guild)
    \/ \E w \in Started, ok \in BOOLEAN : CreateDmChannel(w, ok)
    \/ \E w \in Started, ok \in BOOLEAN : SendMessage(w, ok)

UserStateNext ==
    \/ \E u \in StoreUsers : UserStateSet(u)
    \/ \E u \in StoreUsers : UserStateDelete(u)
    \/ \E u \in StoreUsers : UserStateClear(u)
    \/ \E u \in StoreUsers : UserStateRead(u)

LedgerNext ==
    \/ \E n \in Notifications : Insert(n)
    \/ \E n \in Notifications : Delete(n)
    \/ \E m \in 1..2 : DeleteNotificationsOfMessage(m)
    \/ \E m \in 1..2 : NotificationsOfMessage(m)

Next == WatchNext

(* The watches alone: no caller of the stores is in src/ *)
Spec == Init /\ [][Next]_vars

(* The keys a watch can have: the id of its source message and its        *)
(* candidate                                                               *)
WatchIds == (1..(MaxMessages + MaxWatches)) \X Subscriptions

(* The steps of the task of watch w *)
WatchStep(w) ==
    \/ \E chan \in BOOLEAN, guild \in BOOLEAN : Timeout(w, chan, guild)
    \/ \E ok \in BOOLEAN : CreateDmChannel(w, ok)
    \/ \E ok \in BOOLEAN : SendMessage(w, ok)

(* The watches where every task is scheduled again and again, the timer of *)
(* a collector fires and the calls a task awaits return                    *)
SpecLive == Init /\ [][Next]_vars /\ \A w \in WatchIds : WF_vars(WatchStep(w))

(* The watches, with channels deleted under them *)
SpecChannels ==
    Init /\ [][WatchNext \/ \E c \in ChannelIds : ChannelDelete(c)]_vars

(* Where a watch has not ended *)
InFlight == {"Watching", "CreateDm", "SendMessage"}

(* delete_notifications_of_message(message_id) is called while a watch of  *)
(* that message has not ended                                              *)
Retract(message_id) ==
    /\ \E w \in Started : /\ watches[w].message_id = message_id
                          /\ watches[w].pc \in InFlight
    /\ DeleteNotificationsOfMessage(message_id)

(* The watches, with bulk deletes of their source messages between their   *)
(* steps                                                                   *)
SpecRetract ==
    Init /\ [][\/ WatchNext
               \/ \E m \in 1..(MaxMessages + MaxWatches) : Retract(m)]_vars

GatedNext ==
    \/ WatchNext
    \/ \E u \in Users : UserStateSet(u)
    \/ \E u \in Users : UserStateClear(u)

(* The watches, with the recipient-state store changing under them *)
SpecGated == Init /\ [][GatedNext]_vars

(* The watches, started with user 1 marked CannotDm by an earlier set *)
MarkedInit ==
    /\ PipelineInit
    /\ ResolveIdle
    /\ sent_notifications = <<>>
    /\ user_states = <<[user_id |-> 1, state |-> CANNOT_DM_STATE]>>
    /\ flags = [u \in Users \cup StoreUsers |-> user_state(u).value]
    /\ last = NoOp

SpecMarked == MarkedInit /\ [][WatchNext]_vars

(* The ledger under any sequence of its operations *)
SpecLedger == Init /\ [][LedgerNext]_vars

(* The recipient-state store under any sequence of its operations, from    *)
(* the empty table create_table leaves                                     *)
SpecUserState == Init /\ [][UserStateNext]_vars

----------------------------------------------------------------------------
(* Channel resolution: src/src/commands/util.rs *)

Digits == {"0", "1", "2", "3", "4", "5", "6", "7", "8", "9"}

DigitValue(c) ==
    CASE c = "0" -> 0 [] c = "1" -> 1 [] c = "2" -> 2 [] c = "3" -> 3
      [] c = "4" -> 4 [] c = "5" -> 5 [] c = "6" -> 6 [] c = "7" -> 7
      [] c = "8" -> 8 [] c = "9" -> 9

(* u64::MAX, 18446744073709551615, digit by digit *)
U64MaxDigits ==
    << "1", "8", "4", "4", "6", "7", "4", "4", "0", "7",
       "3", "7", "0", "9", "5", "5", "1", "6", "1", "5" >>

(* A digit string without its leading zeros: the number it denotes. Ids    *)
(* are kept in this form, so that no id outgrows the integers of the       *)
(* checker.                                                                *)
RECURSIVE Canonical(_)
Canonical(ds) ==
    IF Len(ds) > 1 /\ Head(ds) = "0" THEN Canonical(Tail(ds)) ELSE ds

(* a <= b for canonical digit strings *)
DigitsLeq(a, b) ==
    \/ Len(a) < Len(b)
    \/ /\ Len(a) = Len(b)
       /\ \/ a = b
          \/ \E i \in DOMAIN a :
                /\ DigitValue(a[i]) < DigitValue(b[i])
                /\ \A j \in 1..(i - 1) : a[j] = b[j]

(* str::parse::<u64>: an optional "+", then one digit or more, and no      *)
(* overflow                                                                *)
parse_u64(str) ==
    LET body == IF str # <<>> /\ Head(str) = "+" THEN Tail(str) ELSE str
    IN  IF /\ body # <<>>
           /\ \A i \in DOMAIN body : body[i] \in Digits
           /\ DigitsLeq(Canonical(body), U64MaxDigits)
        THEN [ok |-> TRUE, value |-> Canonical(body)]
        ELSE [ok |-> FALSE]

IsWhitespace(c) == c \in {" ", "\t", "\n"}

(* str::split_whitespace: the maximal runs of non-whitespace, in order *)
RECURSIVE split_whitespace(_)
split_whitespace(str) ==
    IF str = <<>> THEN <<>>
    ELSE IF IsWhitespace(Head(str)) THEN split_whitespace(Tail(str))
    ELSE LET n == CHOOSE k \in 1..Len(str) :
                    /\ \A i \in 1..k : ~IsWhitespace(str[i])
                    /\ k = Len(str) \/ IsWhitespace(str[k + 1])
         IN  <<SubSeq(str, 1, n)>> \o split_whitespace(SubSeq(str, n + 1, Len(str)))

to_ascii_lowercase(c) ==
    CASE c = "A" -> "a" [] c = "B" -> "b" [] OTHER -> c

eq_ignore_ascii_case(a, b) ==
    /\ Len(a) = Len(b)
    /\ \A i \in DOMAIN a : to_ascii_lowercase(a[i]) = to_ascii_lowercase(b[i])

(* arg.strip_prefix("<#").and_then(|arg| arg.strip_suffix(">")) *)
strip_mention(arg) ==
    IF Len(arg) >= 3 /\ arg[1] = "<" /\ arg[2] = "#" /\ arg[Len(arg)] = ">"
    THEN [some |-> TRUE, value |-> SubSeq(arg, 3, Len(arg) - 1)]
    ELSE [some |-> FALSE]

(* A channel of the directory is named by its id; channels[id] is its name *)
Found(id, arg) == [ok |-> TRUE, channel |-> id, arg |-> arg]
NotFound(arg) == [ok |-> FALSE, arg |-> arg]

get_channel_from_arg(chans, arg) ==
    LET id == parse_u64(arg)
        inner == strip_mention(arg)
        mention == IF inner.some THEN parse_u64(inner.value) ELSE [ok |-> FALSE]
        named == { c \in DOMAIN chans : eq_ignore_ascii_case(chans[c], arg) }
    IN  IF id.ok
        THEN IF id.value \in DOMAIN chans THEN Found(id.value, arg) ELSE NotFound(arg)
        ELSE IF mention.ok
        THEN IF mention.value \in DOMAIN chans
             THEN Found(mention.value, arg) ELSE NotFound(arg)
        ELSE IF Cardinality(named) = 1
        THEN Found(CHOOSE c \in named : TRUE, arg)
        ELSE NotFound(arg)

(* A collect that drops every token that is not found *)
from_iter_dropping(results) ==
    LET IsOk(r) == r.ok
        oks == SelectSeq(results, IsOk)
    IN  [ not_found |-> <<>>,
          found     |-> [i \in DOMAIN oks |-> <<oks[i].channel, oks[i].arg>>] ]

(* ChannelsFromArgs::from_iter: each result is pushed on its bucket *)
from_iter(results) ==
    LET IsOk(r) == r.ok
        IsErr(r) == ~r.ok
        oks == SelectSeq(results, IsOk)
        errs == SelectSeq(results, IsErr)
    IN  [ not_found |-> [i \in DOMAIN errs |-> errs[i].arg],
          found     |-> [i \in DOMAIN oks |-> <<oks[i].channel, oks[i].arg>>] ]

get_channels_from_args(chans, str) ==
    LET words == split_whitespace(str)
    IN  from_iter([i \in DOMAIN words |-> get_channel_from_arg(chans, words[i])])

(* A loop that takes a failed permission query for "not found" and goes on *)
RECURSIVE ClassifyErrAsNotFound(_, _, _, _)
ClassifyErrAsNotFound(found, i, perms, result) ==
    IF i > Len(found) THEN [ok |-> TRUE, value |-> result]
    ELSE LET channel == found[i][1]
             arg == found[i][2]
             user_can_read == perms[<<"user", channel>>]
             self_can_read == perms[<<"self", channel>>]
         IN  IF user_can_read = "err" \/ self_can_read = "err"
             THEN ClassifyErrAsNotFound(found, i + 1, perms,
                    [result EXCEPT !.not_found = Append(@, arg)])
             ELSE IF user_can_read = "no"
             THEN ClassifyErrAsNotFound(found, i + 1, perms,
                    [result EXCEPT !.user_cant_read = Append(@, <<channel, arg>>)])
             ELSE IF self_can_read = "no"
             THEN ClassifyErrAsNotFound(found, i + 1, perms,
                    [result EXCEPT !.self_cant_read = Append(@, channel)])
             ELSE ClassifyErrAsNotFound(found, i + 1, perms,
                    [result EXCEPT !.found = Append(@, channel)])

(* A loop that asks about the notifying actor first: a channel neither can *)
(* read is pushed on self_cant_read                                        *)
RECURSIVE ClassifySelfFirst(_, _, _, _)
ClassifySelfFirst(found, i, perms, result) ==
    IF i > Len(found) THEN [ok |-> TRUE, value |-> result]
    ELSE LET channel == found[i][1]
             arg == found[i][2]
             user_can_read == perms[<<"user", channel>>]
             self_can_read == perms[<<"self", channel>>]
         IN  IF user_can_read = "err" \/ self_can_read = "err"
             THEN [ok |-> FALSE]
             ELSE IF self_can_read = "no"
             THEN ClassifySelfFirst(found, i + 1, perms,
                    [result EXCEPT !.self_cant_read = Append(@, channel)])
             ELSE IF user_can_read = "no"
             THEN ClassifySelfFirst(found, i + 1, perms,
                    [result EXCEPT !.user_cant_read = Append(@, <<channel, arg>>)])
             ELSE ClassifySelfFirst(found, i + 1, perms,
                    [result EXCEPT !.found = Append(@, channel)])

(* The loop of get_readable_channels_from_args over all_channels.found,    *)
(* from entry i on: both permission queries are made, `?` returns the      *)
(* first failure, and the channel goes to one bucket.                      *)
RECURSIVE Classify(_, _, _, _)
Classify(found, i, perms, result) ==
    IF i > Len(found) THEN [ok |-> TRUE, value |-> result]
    ELSE LET channel == found[i][1]
             arg == found[i][2]
             user_can_read == perms[<<"user", channel>>]
             self_can_read == perms[<<"self", channel>>]
         IN  IF user_can_read = "err" \/ self_can_read = "err"
             THEN [ok |-> FALSE]
             ELSE IF user_can_read = "no"
             THEN Classify(found, i + 1, perms,
                    [result EXCEPT !.user_cant_read = Append(@, <<channel, arg>>)])
             ELSE IF self_can_read = "no"
             THEN Classify(found, i + 1, perms,
                    [result EXCEPT !.self_cant_read = Append(@, channel)])
             ELSE Classify(found, i + 1, perms,
                    [result EXCEPT !.found = Append(@, channel)])

get_readable_channels_from_args(perms, chans, str) ==
    LET all_channels == get_channels_from_args(chans, str)
    IN  Classify(all_channels.found, 1, perms,
                 [ not_found      |-> all_channels.not_found,
                   found          |-> <<>>,
                   user_cant_read |-> <<>>,
                   self_cant_read |-> <<>> ])

(* Inputs of a resolution *)
Words ==
    { <<"1">>, <<"<", "#", "2", ">">>, <<"A">>, <<"7">> }

RECURSIVE Join(_, _)
Join(words, sep) ==
    IF words = <<>> THEN <<>>
    ELSE IF Len(words) = 1 THEN Head(words)
    ELSE Head(words) \o sep \o Join(Tail(words), sep)

(* Argument strings: words joined by one space, or by runs of whitespace   *)
(* with more around them                                                   *)
ArgStrings ==
    LET lists == UNION { [1..n -> Words] : n \in 0..MaxTokens }
    IN  { Join(ws, <<" ">>) : ws \in lists }
        \cup { <<" ">> \o Join(ws, <<" ", "\t">>) \o <<"\n">> : ws \in lists }

ChannelNames == { <<"a">>, <<"7">> }

(* Directories of text channels: ids 1 and 2, any names *)
Directories ==
    UNION { [ids -> ChannelNames] : ids \in SUBSET { <<"1">>, <<"2">> } }

Permissions(chans) == [ {"user", "self"} \X DOMAIN chans -> {"yes", "no", "err"} ]

ResolveInit ==
    /\ PipelineInit
    /\ StoresInit
    /\ args \in ArgStrings
    /\ channels \in Directories
    /\ can_read = <<>>
    /\ known_users = {}
    /\ resolved = NoResolution

(* A command resolves its arguments: get_readable_channels_from_args, and  *)
(* the get_channels_from_args inside it                                    *)
Resolve(perms) ==
    /\ resolved = NoResolution
    /\ can_read' = perms
    /\ resolved' = [ kind         |-> "done",
                     all_channels |-> get_channels_from_args(channels, args),
                     result       |->
                         get_readable_channels_from_args(perms, channels, args) ]
    /\ UNCHANGED <<pipelineVars, sent_notifications, user_states, flags, last,
                   args, channels, known_users>>

ResolveNext == \E perms \in Permissions(channels) : Resolve(perms)

SpecResolve == ResolveInit /\ [][ResolveNext]_vars

----------------------------------------------------------------------------
(* User resolution: src/src/commands/util.rs, get_users_from_args *)

Min(a, b) == IF a <= b THEN a ELSE b

(* The number of digits word holds from place i on, without a break *)
DigitRun(word, i) ==
    LET stop == CHOOSE k \in i..(Len(word) + 1) :
                    /\ k = Len(word) + 1 \/ word[k] \notin Digits
                    /\ \A j \in i..(k - 1) : word[j] \in Digits
    IN  stop - i

(* ([0-9]{16,20}) at place i: sixteen digits or more, of which the first   *)
(* twenty at most are taken                                                *)
BareAt(word, i) ==
    LET run == DigitRun(word, i)
    IN  IF run >= 16
        THEN [some |-> TRUE, value |-> SubSeq(word, i, i + Min(run, 20) - 1)]
        ELSE [some |-> FALSE]

(* <@!?([0-9]{16,20})> at place i: the digits must reach the ">" *)
MentionAt(word, i) ==
    IF i + 1 <= Len(word) /\ word[i] = "<" /\ word[i + 1] = "@"
    THEN LET d == IF i + 2 <= Len(word) /\ word[i + 2] = "!" THEN i + 3 ELSE i + 2
             run == IF d <= Len(word) THEN DigitRun(word, d) ELSE 0
         IN  IF /\ run >= 16
                /\ run <= 20
                /\ d + run <= Len(word)
                /\ word[d + run] = ">"
             THEN [some |-> TRUE, value |-> SubSeq(word, d, d + run - 1)]
             ELSE [some |-> FALSE]
    ELSE [some |-> FALSE]

(* Regex::captures: the leftmost match of the pattern anywhere in the      *)
(* word (the pattern has no anchors), and the group that matched           *)
captures(word) ==
    LET starts == { i \in 1..Len(word) :
                        BareAt(word, i).some \/ MentionAt(word, i).some }
    IN  IF starts = {} THEN [some |-> FALSE]
        ELSE LET first == CHOOSE i \in starts : \A j \in starts : i <= j
             IN  IF BareAt(word, first).some THEN BareAt(word, first)
                 ELSE MentionAt(word, first)

(* The loop of get_users_from_args from word i on. The captured digits go  *)
(* through .parse().unwrap() to a u64: unwrap panics on a number that does *)
(* not fit, and the call never returns.                                    *)
RECURSIVE UsersLoop(_, _, _, _)
UsersLoop(words, i, known, results) ==
    IF i > Len(words) THEN [ok |-> TRUE, value |-> results]
    ELSE LET word == words[i]
             found == captures(word)
             id == IF found.some THEN parse_u64(found.value) ELSE [ok |-> FALSE]
         IN  IF ~found.some
             THEN UsersLoop(words, i + 1, known,
                    [results EXCEPT !.invalid = Append(@, word)])
             ELSE IF ~id.ok
             THEN [ok |-> FALSE, panic |-> "unwrap on ParseIntError", word |-> word]
             ELSE IF id.value \in known
             THEN UsersLoop(words, i + 1, known,
                    [results EXCEPT !.found = Append(@, id.value)])
             ELSE UsersLoop(words, i + 1, known,
                    [results EXCEPT !.not_found = Append(@, id.value)])

get_users_from_args(known, str) ==
    UsersLoop(split_whitespace(str), 1, known,
              [found |-> <<>>, not_found |-> <<>>, invalid |-> <<>>])

(* Inputs of a user resolution *)
Rep(c, n) == [i \in 1..n |-> c]

Id16 == <<"1">> \o Rep("0", 15)

IdOver == Rep("9", 20)

UserWords ==
    { Id16,
      U64MaxDigits,
      IdOver,
      <<"<", "@">> \o Id16 \o <<">">>,
      <<"<", "@", "!">> \o U64MaxDigits \o <<">">>,
      <<"a">>,
      Rep("1", 15),
      <<"x">> \o Id16 }

UserArgStrings ==
    { Join(ws, <<" ">>) : ws \in UNION { [1..n -> UserWords] : n \in 0..MaxTokens } }

UsersInit ==
    /\ PipelineInit
    /\ StoresInit
    /\ args \in UserArgStrings
    /\ channels = <<>>
    /\ can_read = <<>>
    /\ known_users \in SUBSET {Id16, U64MaxDigits}
    /\ resolved = NoResolution

(* A command resolves the users its arguments name *)
ResolveUsers ==
    /\ resolved = NoResolution
    /\ resolved' = [ kind   |-> "users",
                     result |-> get_users_from_args(known_users, args) ]
    /\ UNCHANGED <<pipelineVars, sent_notifications, user_states, flags, last,
                   args, channels, can_read, known_users>>

SpecUsers == UsersInit /\ [][ResolveUsers]_vars

----------------------------------------------------------------------------
(* State codes a user_states file can hold: the column is an INTEGER *)
PersistedCodes == {CANNOT_DM_STATE, 1, 2, 256}

(* The tables a user_states file can hold: user_id is its PRIMARY KEY *)
PersistedTables ==
    LET Rows == [user_id : StoreUsers, state : PersistedCodes]
    IN  { t \in UNION { [1..n -> Rows] : n \in 0..NumStoreUsers } :
            \A i, j \in DOMAIN t : t[i].user_id = t[j].user_id => i = j }

PersistedInit ==
    /\ PipelineInit
    /\ ResolveIdle
    /\ sent_notifications = <<>>
    /\ user_states \in PersistedTables
    /\ flags = [u \in Users \cup StoreUsers |-> user_state(u).value]
    /\ last = NoOp

(* The recipient-state store opened on a file written earlier *)
SpecPersisted == PersistedInit /\ [][UserStateNext]_vars

----------------------------------------------------------------------------
(* What a watch has done *)

DmsOf(w) == { i \in DOMAIN dms : dms[i].watch = w }

ReportsOf(w) == DOMAIN reports[w]

(* The ledger rows of the candidate of watch w *)
RowsOf(w) ==
    { i \in DOMAIN sent_notifications :
        /\ sent_notifications[i].original_message = watches[w].message_id
        /\ sent_notifications[i].user_id = watches[w].user_id
        /\ sent_notifications[i].keyword = watches[w].keyword }

Silent(w) == DmsOf(w) = {} /\ ReportsOf(w) = {} /\ RowsOf(w) = {}

HeardAuthor(w) == watches[w].author \in watches[w].heard

HeardSubscriber(w) == watches[w].user_id \in watches[w].heard

----------------------------------------------------------------------------
(* C1 as stated: a follow-up by the author of the source message, in the   *)
(* source channel, inside the patience window, ends the watch Suppressed:  *)
(* it never goes on to deliver, sends no direct message, writes no ledger  *)
(* row and reports no error.                                               *)
C1_AuthorFollowUpSuppresses ==
    \A w \in Started :
        HeardAuthor(w) =>
            /\ watches[w].pc \in {"Watching", "Suppressed"}
            /\ Silent(w)

(* C1 amended: a follow-up by the subscriber (keyword.user_id, the user    *)
(* the reply filter names), in the source channel, inside the patience     *)
(* window, ends the watch Suppressed: no direct message is sent, no ledger *)
(* row is written and no error is reported for the candidate.              *)
C1_SubscriberFollowUpSuppresses ==
    \A w \in Started :
        HeardSubscriber(w) =>
            /\ watches[w].pc = "Suppressed"
            /\ Silent(w)

C1_Witness ==
    \E w \in Started :
        /\ HeardSubscriber(w)
        /\ watches[w].pc = "Suppressed"
        /\ \E v \in Started : v # w /\ watches[v].pc = "Delivered"

(* C2 as stated: a watch that delivered sent exactly one direct message    *)
(* and wrote exactly one ledger row (original_message = the source message,*)
(* notification_message = the sent message, keyword, user_id = subscriber).*)
C2_DeliveredWritesOneRow ==
    \A w \in Started :
        watches[w].pc = "Delivered" =>
            /\ Cardinality(DmsOf(w)) = 1
            /\ Cardinality(RowsOf(w)) = 1
            /\ \A i \in RowsOf(w) : \A d \in DmsOf(w) :
                  sent_notifications[i].notification_message = dms[d].id

(* C7 as stated: while the recipient state of a user is CannotDm, no step  *)
(* starts a watch for that user and no step sends that user a direct       *)
(* message.                                                                *)
C7_NothingForUsersMarkedCannotDm ==
    [][\A u \in Users :
         user_state(u).value = "CannotDm" =>
             /\ \A w \in (DOMAIN watches') \ DOMAIN watches :
                   watches'[w].user_id # u
             /\ \A i \in (DOMAIN dms') \ DOMAIN dms : dms'[i].to # u]_vars

(* C4: a watch attempts at most one send; a watch that failed reported     *)
(* exactly once, with the source channel, the subscriber and the error of  *)
(* the failing step, sent nothing and wrote no ledger row; a watch that    *)
(* did not fail reported nothing.                                          *)
DeliveryErrors ==
    { "Couldn't get channel for keyword", "Couldn't get guild for keyword",
      "create_dm_channel", "send_message" }

C4_FailureReportedOnce ==
    \A w \in Started :
        /\ watches[w].sends <= 1
        /\ Cardinality(DmsOf(w)) <= watches[w].sends
        /\ watches[w].pc # "Failed" => ReportsOf(w) = {}
        /\ watches[w].pc = "Failed" =>
              /\ Cardinality(ReportsOf(w)) = 1
              /\ \A i \in ReportsOf(w) :
                    /\ reports[w][i].channel_id = watches[w].channel_id
                    /\ reports[w][i].user_id = watches[w].user_id
                    /\ reports[w][i].error \in DeliveryErrors
                    /\ reports[w][i].error = "send_message" <=> watches[w].sends = 1
              /\ DmsOf(w) = {}
              /\ RowsOf(w) = {}

C4_Witness ==
    \E w, v \in Started :
        /\ watches[w].pc = "Failed" /\ watches[w].sends = 1
        /\ \E i \in ReportsOf(w) : reports[w][i].error = "send_message"
        /\ watches[v].pc = "Failed" /\ watches[v].sends = 0
        /\ \E i \in ReportsOf(v) : reports[v][i].error = "Couldn't get channel for keyword"


----------------------------------------------------------------------------
(* The ledger: what an operation did to the table it found *)

(* How many times row r occurs in a table *)
Count(table, r) == Cardinality({ i \in DOMAIN table : table[i] = r })

RowsIn(table) == { table[i] : i \in DOMAIN table }

(* Every row the test spares occurs as often as before, and no new row     *)
(* appeared                                                                *)
Untouched(before, after, Spared(_)) ==
    /\ \A r \in RowsIn(before) : Spared(r) => Count(after, r) = Count(before, r)
    /\ RowsIn(after) \subseteq RowsIn(before)

C5_BulkDeleteRemovesAllOfMessage ==
    last.op = "delete_notifications_of_message" =>
        LET Other(r) == r.original_message # last.arg
        IN  /\ last.result = "Ok"
            /\ \A i \in DOMAIN sent_notifications :
                  sent_notifications[i].original_message # last.arg
            /\ Untouched(last.before, sent_notifications, Other)

C5_Witness ==
    /\ last.op = "delete_notifications_of_message"
    /\ Len(last.before) = MaxRows
    /\ Len(sent_notifications) = 1
    /\ \E i \in DOMAIN last.before : last.before[i].original_message = last.arg

(* Rows of the table found with the notification_message of the argument *)
Hits == { i \in DOMAIN last.before :
            last.before[i].notification_message = last.arg.notification_message }

(* C6 as stated: delete of a notification that is in the ledger removes    *)
(* exactly one row and leaves every other row unchanged.                   *)
C6_DeleteRemovesExactlyOneRow ==
    (last.op = "delete" /\ Hits # {}) =>
        /\ Len(sent_notifications) = Len(last.before) - 1
        /\ RowsIn(sent_notifications) \subseteq RowsIn(last.before)

(* C6 amended: delete removes every row whose notification_message is the  *)
(* notification's (exactly one when no other row shares it, which the      *)
(* table does not enforce) and leaves every row with another               *)
(* notification_message unchanged, rows of the same original_message       *)
(* included.                                                               *)
C6_DeleteRemovesRowsOfNotification ==
    last.op = "delete" =>
        LET Other(r) == r.notification_message # last.arg.notification_message
        IN  /\ last.result = "Ok"
            /\ \A i \in DOMAIN sent_notifications :
                  sent_notifications[i].notification_message
                      # last.arg.notification_message
            /\ Untouched(last.before, sent_notifications, Other)
            /\ Len(sent_notifications) = Len(last.before) - Cardinality(Hits)

C6_Witness ==
    /\ last.op = "delete"
    /\ Cardinality(Hits) = 1
    /\ Len(sent_notifications) = MaxRows - 1
    /\ \A i \in DOMAIN sent_notifications :
          sent_notifications[i].original_message = last.arg.original_message

----------------------------------------------------------------------------
(* The recipient-state store *)

RowsOfUser(table, u) ==
    LET IsUser(r) == r.user_id = u
    IN  SelectSeq(table, IsUser)

(* C8: the table is a partial map from user to flag: at most one row per   *)
(* user; user_state(u) is the flag of the latest set of u that no delete   *)
(* or clear of u followed, else None; set, delete and clear return Ok and  *)
(* leave the rows of every other user as they were; delete or clear of a   *)
(* user without a row changes nothing.                                     *)
C8_StoreIsPartialMap ==
    /\ \A i, j \in DOMAIN user_states :
          user_states[i].user_id = user_states[j].user_id => i = j
    /\ \A u \in StoreUsers : user_state(u) = [ok |-> TRUE, value |-> flags[u]]
    /\ last.op \in {"set", "delete", "clear"} =>
          /\ last.result = "Ok"
          /\ \A v \in StoreUsers \ {last.user_id} :
                RowsOfUser(user_states, v) = RowsOfUser(last.before, v)
    /\ last.op = "set" =>
          RowsOfUser(user_states, last.user_id)
              = <<[user_id |-> last.user_id, state |-> CANNOT_DM_STATE]>>
    /\ last.op \in {"delete", "clear"} =>
          /\ RowsOfUser(user_states, last.user_id) = <<>>
          /\ RowsOfUser(last.before, last.user_id) = <<>> => user_states = last.before

C8_Witness ==
    /\ last.op = "set"
    /\ RowsOfUser(last.before, last.user_id) # <<>>
    /\ Len(last.before) = NumStoreUsers
    /\ Len(user_states) = NumStoreUsers

(* C9: a read of a user whose row holds a code other than CannotDm's is an *)
(* error: neither a flag nor None.                                         *)
C9_UnknownCodeIsAnError ==
    last.op = "user_state" =>
        \A i \in DOMAIN last.before :
            (/\ last.before[i].user_id = last.user_id
             /\ last.before[i].state # CANNOT_DM_STATE)
            => /\ last.result.ok = FALSE
               /\ last.result.value \notin {"None", "CannotDm"}

C9_Witness ==
    /\ last.op = "user_state"
    /\ last.result.ok = FALSE
    /\ \E i \in DOMAIN last.before :
          /\ last.before[i].user_id = last.user_id
          /\ last.before[i].state = 256
    /\ Len(last.before) = NumStoreUsers

----------------------------------------------------------------------------
(* Channel resolution *)

(* The entries of seq whose index f sends to bucket b, in order *)
Pick(seq, f, b) ==
    LET In(i) == f[i] = b
        idx == SelectSeq([i \in DOMAIN seq |-> i], In)
    IN  [k \in DOMAIN idx |-> seq[idx[k]]]

Tokens == split_whitespace(args)

(* The channel a token stands for, or <<>> when it stands for none *)
ChannelOf(arg) ==
    LET r == get_channel_from_arg(channels, arg)
    IN  IF r.ok THEN r.channel ELSE <<>>

(* C10: the tokens of the argument string are dealt to the buckets one     *)
(* each, in order: for get_channels_from_args to found and not_found, and  *)
(* for a get_readable_channels_from_args that returns Ok to not_found,     *)
(* found, user_cant_read and self_cant_read. A bucket of channels holds    *)
(* the channel of each of its tokens.                                      *)
C10_EveryTokenInOneBucketInOrder ==
    resolved.kind = "done" =>
        /\ \E f \in [DOMAIN Tokens -> {"found", "not_found"}] :
              LET in_found == Pick(Tokens, f, "found")
              IN  /\ resolved.all_channels.not_found = Pick(Tokens, f, "not_found")
                  /\ resolved.all_channels.found =
                        [k \in DOMAIN in_found |-> <<ChannelOf(in_found[k]), in_found[k]>>]
        /\ resolved.result.ok =>
              \E f \in [DOMAIN Tokens ->
                          {"not_found", "found", "user_cant_read", "self_cant_read"}] :
                  LET in_found == Pick(Tokens, f, "found")
                      in_user == Pick(Tokens, f, "user_cant_read")
                      in_self == Pick(Tokens, f, "self_cant_read")
                      r == resolved.result.value
                  IN  /\ r.not_found = Pick(Tokens, f, "not_found")
                      /\ r.found = [k \in DOMAIN in_found |-> ChannelOf(in_found[k])]
                      /\ r.user_cant_read =
                            [k \in DOMAIN in_user |-> <<ChannelOf(in_user[k]), in_user[k]>>]
                      /\ r.self_cant_read =
                            [k \in DOMAIN in_self |-> ChannelOf(in_self[k])]

C10_Witness ==
    /\ resolved.kind = "done"
    /\ resolved.result.ok
    /\ Len(Tokens) = MaxTokens
    /\ Len(resolved.result.value.not_found) = 1
    /\ Len(resolved.result.value.found) = 2
    /\ resolved.result.value.found[1] # resolved.result.value.found[2]
    /\ Tokens[2] = resolved.result.value.not_found[1]

----------------------------------------------------------------------------
(* The channels of the directory each of the three steps yields for a      *)
(* token: its decimal id, the id inside <#..>, and the one channel whose   *)
(* name equals it ignoring ASCII case                                      *)
YieldedById(arg) ==
    { c \in DOMAIN channels : parse_u64(arg).ok /\ parse_u64(arg).value = c }

YieldedByMention(arg) ==
    { c \in DOMAIN channels :
        /\ strip_mention(arg).some
        /\ parse_u64(strip_mention(arg).value).ok
        /\ parse_u64(strip_mention(arg).value).value = c }

YieldedByName(arg) ==
    LET named == { c \in DOMAIN channels : eq_ignore_ascii_case(channels[c], arg) }
    IN  IF Cardinality(named) = 1 THEN named ELSE {}

(* The channel of the first step that yields one *)
FirstYielded(arg) ==
    IF YieldedById(arg) # {} THEN YieldedById(arg)
    ELSE IF YieldedByMention(arg) # {} THEN YieldedByMention(arg)
    ELSE YieldedByName(arg)

(* The channels get_channels_from_args found for a token *)
FoundFor(arg) ==
    { resolved.all_channels.found[k][1] :
        k \in { j \in DOMAIN resolved.all_channels.found :
                    resolved.all_channels.found[j][2] = arg } }

IsNotFound(arg) ==
    \E k \in DOMAIN resolved.all_channels.not_found :
        resolved.all_channels.not_found[k] = arg

(* C11 as stated: a token resolves if and only if one of the three steps,  *)
(* tried in the order id, mention, name, yields a channel of the           *)
(* directory; it then stands with that channel and its original text in    *)
(* found, and otherwise it is returned verbatim in not_found.              *)
C11_ResolvesIffSomeStepYields ==
    resolved.kind = "done" =>
        \A i \in DOMAIN Tokens :
            /\ FoundFor(Tokens[i]) = FirstYielded(Tokens[i])
            /\ IsNotFound(Tokens[i]) <=> FirstYielded(Tokens[i]) = {}

----------------------------------------------------------------------------
(* The resolved channels of the command, and what the two permission       *)
(* queries answered for them                                               *)
ResolvedChannels ==
    { resolved.all_channels.found[k][1] : k \in DOMAIN resolved.all_channels.found }

RequesterCanRead(c) == can_read[<<"user", c>>] = "yes"

ActorCanRead(c) == can_read[<<"self", c>>] = "yes"

Range(seq) == { seq[k] : k \in DOMAIN seq }

UserCantReadChannels(r) == { p[1] : p \in Range(r.user_cant_read) }

(* C12: of a classification that returned, every resolved channel c is in  *)
(* found iff the requester and the actor can read it, in user_cant_read    *)
(* (paired with a token that resolved to it) iff the requester cannot, and *)
(* in self_cant_read iff the requester can and the actor cannot; the four  *)
(* buckets share no channel and no token.                                  *)
C12_BucketsByRequesterThenActor ==
    (resolved.kind = "done" /\ resolved.result.ok) =>
        LET r == resolved.result.value
        IN  /\ \A c \in ResolvedChannels :
                  /\ c \in Range(r.found) <=> RequesterCanRead(c) /\ ActorCanRead(c)
                  /\ c \in UserCantReadChannels(r) <=> ~RequesterCanRead(c)
                  /\ c \in Range(r.self_cant_read) <=>
                        RequesterCanRead(c) /\ ~ActorCanRead(c)
            /\ Range(r.user_cant_read) \subseteq Range(resolved.all_channels.found)
            /\ Range(r.found) \cap UserCantReadChannels(r) = {}
            /\ Range(r.found) \cap Range(r.self_cant_read) = {}
            /\ UserCantReadChannels(r) \cap Range(r.self_cant_read) = {}
            /\ \A t \in Range(r.not_found) : FoundFor(t) = {}
            /\ Range(r.found) \cup UserCantReadChannels(r) \cup Range(r.self_cant_read)
                  = ResolvedChannels

(* A channel neither can read stands in user_cant_read, beside one only    *)
(* the actor cannot read                                                   *)
C12_Witness ==
    /\ resolved.kind = "done"
    /\ resolved.result.ok
    /\ \E c \in ResolvedChannels :
          /\ ~RequesterCanRead(c)
          /\ ~ActorCanRead(c)
          /\ c \in UserCantReadChannels(resolved.result.value)
    /\ \E c \in ResolvedChannels :
          /\ RequesterCanRead(c)
          /\ c \in Range(resolved.result.value.self_cant_read)
    /\ resolved.result.value.not_found # <<>>

----------------------------------------------------------------------------
(* C13: no watch is started for a subscription of the author of its source *)
(* message, and so no direct message and no ledger row is produced for     *)
(* one.                                                                    *)
C13_AuthorNeverMatchedAgainstOwnKeywords ==
    /\ \A w \in Started : watches[w].user_id # watches[w].author
    /\ \A i \in DOMAIN dms : dms[i].to # watches[dms[i].watch].author
    /\ \A w \in Started : \A i \in RowsOf(w) :
          sent_notifications[i].user_id # watches[w].author

(* The author of a delivered source message subscribes to the keyword it   *)
(* held, and no watch of that message is theirs                            *)
C13_Witness ==
    \E w \in Started :
        /\ watches[w].pc = "Delivered"
        /\ [user_id |-> watches[w].author, keyword |-> watches[w].keyword]
              \in Subscriptions
        /\ \A v \in Started :
              watches[v].message_id = watches[w].message_id =>
                  watches[v].user_id # watches[w].author

----------------------------------------------------------------------------
(* The rows of sub are rows of seq, met in the order seq holds them *)
InOrderOf(sub, seq) ==
    \E f \in [DOMAIN sub -> DOMAIN seq] :
        /\ \A k \in DOMAIN sub : sub[k] = seq[f[k]]
        /\ \A j, k \in DOMAIN sub : j < k => f[j] < f[k]

(* The places of the table whose row is of the message *)
PlacesOf(table, message_id) ==
    { i \in DOMAIN table : table[i].original_message = message_id }

(* The k-th smallest of a set of places *)
NthPlace(places, k) ==
    CHOOSE i \in places : Cardinality({ j \in places : j < i }) = k - 1

----------------------------------------------------------------------------
(* Where a watch ends, and where it is once the timeout has resolved it *)
Terminal == {"Suppressed", "Delivered", "Failed"}

AfterTimeout == {"CreateDm", "SendMessage", "Delivered", "Failed"}

(* A step resolves no watch twice and takes nothing back *)
ResolvedOnce ==
    /\ \A i \in DOMAIN dms : i \in DOMAIN dms' /\ dms'[i] = dms[i]
    /\ \A w \in Started :
          /\ w \in DOMAIN watches'
          /\ watches[w].pc \in Terminal => watches'[w].pc = watches[w].pc
          /\ watches[w].pc # "Watching" => watches'[w].pc # "Watching"
          /\ watches[w].pc \in AfterTimeout => watches'[w].pc \in AfterTimeout
          /\ Cardinality({ i \in DOMAIN dms' : dms'[i].watch = w }) <= 1

(* C15: a watch leaves Watching once, by the follow-up that passes its     *)
(* filter or by the timeout, whichever comes first; with the timer firing  *)
(* and the awaited calls returning it ends Suppressed, Delivered or Failed *)
(* and stays there; after the timeout no later message suppresses it,      *)
(* takes back its direct message or makes it send a second one.            *)
C15_ResolvedOnceAndEnds ==
    /\ [][ResolvedOnce]_vars
    /\ \A w \in WatchIds :
          (w \in Started) ~> (w \in Started /\ watches[w].pc \in Terminal)

(* A watch delivered although its subscriber posted in the source channel  *)
(* after the timeout and before the direct message was sent                *)
C15_Witness ==
    \E w \in Started, v \in Started :
        /\ watches[w].pc = "Delivered"
        /\ watches[v].author = watches[w].user_id
        /\ watches[v].channel_id = watches[w].channel_id
        /\ watches[v].message_id > watches[w].message_id
        /\ \A i \in DmsOf(w) : watches[v].message_id < dms[i].id

----------------------------------------------------------------------------
(* The next await of watch w can return, with success, whatever the other  *)
(* watches are doing                                                       *)
CanGoOn(w) ==
    /\ watches[w].pc = "Watching" => ENABLED Timeout(w, TRUE, TRUE)
    /\ watches[w].pc = "CreateDm" => ENABLED CreateDmChannel(w, TRUE)
    /\ watches[w].pc = "SendMessage" => ENABLED SendMessage(w, TRUE)

(* A step of the task of watch v leaves every other watch, and what it has *)
(* sent and reported, as it was                                            *)
TouchesOnlyItself(v) ==
    WatchStep(v) =>
        \A w \in Started \ {v} :
            /\ watches'[w] = watches[w]
            /\ reports'[w] = reports[w]
            /\ \A i \in DOMAIN dms' : dms'[i].watch = w => i \in DmsOf(w)

(* C16: no watch waits for another: whatever state the other watches are   *)
(* in (waiting, in a delivery step, failed), a watch that has not ended    *)
(* can take its next step and complete its delivery, and a step of one     *)
(* watch changes nothing of another, so that where a watch ends does not   *)
(* depend on the others.                                                   *)
C16_WatchesAreIndependent ==
    /\ [](\A w \in Started : CanGoOn(w))
    /\ [][\A v \in Started : TouchesOnlyItself(v)]_vars

(* Of two watches of one source message, one has failed and the other has  *)
(* delivered                                                               *)
C16_Witness ==
    \E w \in Started, v \in Started :
        /\ w # v
        /\ watches[w].message_id = watches[v].message_id
        /\ watches[w].pc = "Failed"
        /\ watches[v].pc = "Delivered"

----------------------------------------------------------------------------
(* C17: no step of a watch (the timeout and the cache reads, opening the   *)
(* DM channel, the send, the report of a failure) changes user_states: the *)
(* row, or the absence of a row, of every user is after the step what it   *)
(* was before it, whatever state the watch ends in.                        *)
C17_WatchLeavesUserStatesAlone ==
    [][\A w \in Started :
          WatchStep(w) => /\ user_states' = user_states
                          /\ \A u \in Users : user_state(u)' = user_state(u)
      ]_vars

(* The send of a watch failed, its subscriber has no row, and another user *)
(* has one                                                                 *)
C17_Witness ==
    \E w \in Started :
        /\ watches[w].pc = "Failed"
        /\ watches[w].sends = 1
        /\ user_state(watches[w].user_id).value = "None"
        /\ user_states # <<>>

----------------------------------------------------------------------------
(* C18 as stated: once the channel of the source message is deleted, a     *)
(* watch that has not delivered does not deliver: no direct message is     *)
(* sent to the subscriber and no ledger row is written for the candidate.  *)
C18_NoDeliveryOnceChannelDeleted ==
    [][\A w \in Started :
          (/\ watches[w].channel_id \in deleted_channels
           /\ DmsOf(w) = {}
           /\ RowsOf(w) = {})
          => /\ \A i \in DOMAIN dms' : dms'[i].watch # w
             /\ \A i \in DOMAIN sent_notifications' :
                   ~ /\ sent_notifications'[i].original_message = watches[w].message_id
                     /\ sent_notifications'[i].user_id = watches[w].user_id
                     /\ sent_notifications'[i].keyword = watches[w].keyword
      ]_vars

----------------------------------------------------------------------------
(* A permission query of the call failed for channel c *)
QueryFailed(c) ==
    \/ can_read[<<"user", c>>] = "err"
    \/ can_read[<<"self", c>>] = "err"

(* C19: the call returns Err exactly when a permission query failed for a  *)
(* resolved channel, and the Err carries no bucket: nothing classified     *)
(* before the failure is returned, and the channel of the failed query is  *)
(* in no bucket, not_found included.                                       *)
C19_FailedQueryIsErrWithoutBuckets ==
    resolved.kind = "done" =>
        /\ ~resolved.result.ok <=> \E c \in ResolvedChannels : QueryFailed(c)
        /\ ~resolved.result.ok => DOMAIN resolved.result = {"ok"}
        /\ resolved.result.ok =>
              \A t \in Range(resolved.result.value.not_found) :
                  ChannelOf(t) = <<>>

(* The query fails for the second resolved channel, after the first was    *)
(* classified, in a call that also has a token that is not found           *)
C19_Witness ==
    /\ resolved.kind = "done"
    /\ ~resolved.result.ok
    /\ Len(resolved.all_channels.found) = 2
    /\ ~QueryFailed(resolved.all_channels.found[1][1])
    /\ QueryFailed(resolved.all_channels.found[2][1])
    /\ resolved.all_channels.not_found # <<>>

----------------------------------------------------------------------------
(* C20: a watch is resolved by a message only if the message is in the     *)
(* channel of its source message and by the user its filter names (heard   *)
(* holds the authors of the messages that arrived in that channel while    *)
(* the watch was waiting); after any other message the watch is still      *)
(* waiting, its timeout can fire, and it goes on to deliver.               *)
C20_OtherMessagesDoNotResolve ==
    \A w \in Started :
        /\ watches[w].pc = "Suppressed" => HeardSubscriber(w)
        /\ (watches[w].pc = "Watching" /\ ~HeardSubscriber(w)) =>
              ENABLED Timeout(w, TRUE, TRUE)

(* A watch delivered after it heard, while waiting, a message in its       *)
(* channel by another user than its subscriber                             *)
C20_Witness ==
    \E w \in Started :
        /\ watches[w].pc = "Delivered"
        /\ watches[w].heard # {}
        /\ ~HeardSubscriber(w)

----------------------------------------------------------------------------
----------------------------------------------------------------------------
(* A token that is an id or a mention of one: 16 to 20 digits, bare or     *)
(* inside <@..> or <@!..>                                                  *)
IsIdDigits(ds) ==
    /\ Len(ds) >= 16
    /\ Len(ds) <= 20
    /\ \A i \in DOMAIN ds : ds[i] \in Digits

IsIdOrMention(word) ==
    \/ IsIdDigits(word)
    \/ /\ Len(word) > 3
       /\ word[1] = "<" /\ word[2] = "@" /\ word[Len(word)] = ">"
       /\ \/ IsIdDigits(SubSeq(word, 3, Len(word) - 1))
          \/ word[3] = "!" /\ IsIdDigits(SubSeq(word, 4, Len(word) - 1))

(* C22 as stated: for every argument string get_users_from_args returns    *)
(* (it does not panic: every digit run the pattern takes fits a u64), each *)
(* token is in exactly one of found, not_found and invalid, in order, and  *)
(* a token is in invalid exactly when it is not an id or a mention.        *)
C22_EveryTokenResolvedWithoutPanic ==
    resolved.kind = "users" =>
        /\ resolved.result.ok
        /\ \E f \in [DOMAIN Tokens -> {"found", "not_found", "invalid"}] :
              /\ Len(resolved.result.value.found) =
                    Len(Pick(Tokens, f, "found"))
              /\ Len(resolved.result.value.not_found) =
                    Len(Pick(Tokens, f, "not_found"))
              /\ resolved.result.value.invalid = Pick(Tokens, f, "invalid")
              /\ \A i \in DOMAIN Tokens :
                    f[i] = "invalid" <=> ~IsIdOrMention(Tokens[i])
====
